---- MODULE Spec2Model ----
(***************************************************************************)
(* contract_decompile.py: decompile every contract, then give the imports  *)
(* of each decompiled file the canonical names of env.json, pairing the    *)
(* imports by position with those of the file's reference disassembly.     *)
(*                                                                         *)
(* A text is a sequence of one-character strings.  An optional JSON field  *)
(* is <<>> when it is absent (dict.get gives None) and <<v>> when it holds *)
(* v.  A file is named by its stem: contracts/x.wasm, decomp/x.wasm and    *)
(* wat/x.wat are all "x".                                                  *)
(***************************************************************************)
EXTENDS Integers, Sequences, FiniteSets, TLC

VARIABLES
    pc,         \* where the program is: fetch, build, decompile, process, done, failed
    env,        \* the naming descriptor at the env.json address
    mapping,    \* the naming table: key -> canonical name
    contracts,  \* the stems of contracts/*.wasm
    tool,       \* what wasm-decompile prints for each contract
    wat,        \* wat/: stem -> the lines of the reference disassembly
    disk,       \* decomp/: stem -> text of the decompiled file
    todo,       \* the files the running for loop has not visited yet
    out,        \* the per-file lines printed so far, and the final "done"
    exit,       \* the message the process exited with
    snap,       \* history: decomp/ as it was when process_pairs was entered
    calls,      \* history: how many times process_pairs has been entered
    prev        \* history: the files the previous call of process_pairs rewrote, as it found them

vars == <<pc, env, mapping, contracts, tool, wat, disk, todo, out, exit, snap, calls, prev>>

----------------------------------------------------------------------------
(* Strings *)

None == <<>>

Some(v) == <<v>>

Keyword == <<"i","m","p","o","r","t"," ","f","u","n","c","t","i","o","n">>

\* [A-Za-z0-9_], as far as the alphabet of the model goes
WordChars == {"a","b","n","v","1","2","_","i","m","p","o","r","t","f","u","c"}

\* \s
SpaceChars == {" ", "\t", "\n"}

OccursAt(t, i, pat) ==
    /\ i + Len(pat) - 1 <= Len(t)
    /\ SubSeq(t, i, i + Len(pat) - 1) = pat

\* old in text
Contains(t, pat) == \E i \in 1..Len(t) : OccursAt(t, i, pat)

RECURSIVE ReplaceFrom(_, _, _, _)
ReplaceFrom(t, i, old, new) ==
    IF i > Len(t) THEN <<>>
    ELSE IF OccursAt(t, i, old)
         THEN new \o ReplaceFrom(t, i + Len(old), old, new)
         ELSE <<t[i]>> \o ReplaceFrom(t, i + 1, old, new)

\* text.replace(old, new): every occurrence, left to right, not overlapping
Replace(t, old, new) == ReplaceFrom(t, 1, old, new)

RECURSIVE SkipWhile(_, _, _)
SkipWhile(t, i, S) ==
    IF i <= Len(t) /\ t[i] \in S THEN SkipWhile(t, i + 1, S) ELSE i

\* \bimport function\s+([A-Za-z0-9_]+)\s*\( tried at position i: the
\* identifier and the position after the match, or no match.  Every
\* quantifier is greedy and none can give a character back: what follows a
\* run is never in the run's class.
MatchImportAt(t, i) ==
    LET k == i + Len(Keyword)
        s == SkipWhile(t, k, SpaceChars)
        e == SkipWhile(t, s, WordChars)
        p == SkipWhile(t, e, SpaceChars)
    IN  IF /\ (i = 1 \/ t[i - 1] \notin WordChars)
           /\ OccursAt(t, i, Keyword)
           /\ s > k
           /\ e > s
           /\ p <= Len(t)
           /\ t[p] = "("
        THEN [hit |-> TRUE, id |-> SubSeq(t, s, e - 1), next |-> p + 1]
        ELSE [hit |-> FALSE, id |-> <<>>, next |-> i + 1]

RECURSIVE FindImports(_, _)
FindImports(t, i) ==
    IF i > Len(t) THEN <<>>
    ELSE LET m == MatchImportAt(t, i)
         IN  IF m.hit THEN <<m.id>> \o FindImports(t, m.next)
             ELSE FindImports(t, m.next)

\* re.findall: the identifiers of the import declarations, in order
extract_decomp_imports(text) == FindImports(text, 1)

\* A reference disassembly is kept line by line: an import line
\* (import "m" "f" ...) is [import |-> TRUE, m, f], any other line has
\* import FALSE.  "([^"]+)" needs one character at least, so an import
\* line with an empty module or field string is not found.
WatHit(line) == line.import /\ line.m # <<>> /\ line.f # <<>>

RECURSIVE extract_wat_imports(_)
extract_wat_imports(lines) ==
    IF lines = <<>> THEN <<>>
    ELSE (IF WatHit(Head(lines)) THEN <<<<Head(lines).m, Head(lines).f>>>> ELSE <<>>)
         \o extract_wat_imports(Tail(lines))

----------------------------------------------------------------------------
(* build_map *)

NoExit == [kind |-> "none", file |-> "", arg |-> <<>>, decomp |-> 0, wat |-> 0]

Fatal(kind, file, arg) == [kind |-> kind, file |-> file, arg |-> arg, decomp |-> 0, wat |-> 0]

EmptyMap == [k \in {} |-> <<>>]

\* Put that keeps what a key already has
PutKeepingFirst(m, key, name) ==
    [k \in DOMAIN m \cup {key} |-> IF k \in DOMAIN m THEN m[k] ELSE name]

\* m[key] = name
Put(m, key, name) == [k \in DOMAIN m \cup {key} |-> IF k = key THEN name ELSE m[k]]

\* not mod_exp: the alias is absent, or the empty string
Skipped(mod) == mod.export = None \/ mod.export[1] = <<>>

\* fn_exp is None or name is None
BadEntry(fn) == fn.export = None \/ fn.name = None

\* key = f"{mod_exp}{fn_exp}"
MakeKey(mod_exp, fn_exp) == mod_exp \o fn_exp

\* AddFunctions passing over an entry that lacks its alias or its name
RECURSIVE AddFunctionsSkippingBad(_, _, _)
AddFunctionsSkippingBad(m, mod_exp, fns) ==
    IF fns = <<>> THEN [ok |-> TRUE, m |-> m]
    ELSE LET fn == Head(fns)
         IN  IF BadEntry(fn) THEN AddFunctionsSkippingBad(m, mod_exp, Tail(fns))
             ELSE AddFunctionsSkippingBad(Put(m, MakeKey(mod_exp, fn.export[1]), fn.name[1]),
                                          mod_exp, Tail(fns))

\* the inner for loop: [ok, m]
RECURSIVE AddFunctions(_, _, _)
AddFunctions(m, mod_exp, fns) ==
    IF fns = <<>> THEN [ok |-> TRUE, m |-> m]
    ELSE LET fn == Head(fns)
         IN  IF BadEntry(fn) THEN [ok |-> FALSE, m |-> m]
             ELSE AddFunctions(Put(m, MakeKey(mod_exp, fn.export[1]), fn.name[1]),
                               mod_exp, Tail(fns))

\* AddModules without the continue: an absent alias is formatted as None
RECURSIVE AddModulesAll(_, _)
AddModulesAll(m, mods) ==
    IF mods = <<>> THEN [ok |-> TRUE, m |-> m]
    ELSE LET mod == Head(mods)
             exp == IF mod.export = None THEN <<"N", "o", "n", "e">> ELSE mod.export[1]
             r   == AddFunctions(m, exp, mod.functions)
         IN  IF r.ok THEN AddModulesAll(r.m, Tail(mods)) ELSE r

\* the outer for loop
RECURSIVE AddModules(_, _)
AddModules(m, mods) ==
    IF mods = <<>> THEN [ok |-> TRUE, m |-> m]
    ELSE LET mod == Head(mods)
         IN  IF Skipped(mod) THEN AddModules(m, Tail(mods))
             ELSE LET r == AddFunctions(m, mod.export[1], mod.functions)
                  IN  IF r.ok THEN AddModules(r.m, Tail(mods)) ELSE r

build_map(e) == AddModules(EmptyMap, e.modules)

----------------------------------------------------------------------------
(* process_pairs, one file *)

Mismatch(name, nd, nw) ==
    [kind |-> "import count mismatch", file |-> name, arg |-> <<>>, decomp |-> nd, wat |-> nw]

\* old_pat = f" {orig}(" and new_pat = f" {new}("
Pat(ident) == <<" ">> \o ident \o <<"(">>

\* Substitute with a missing key passed over instead of raised
RECURSIVE SubstituteSkippingMisses(_, _, _, _, _)
SubstituteSkippingMisses(name, text, ids, pairs, m) ==
    IF ids = <<>> \/ pairs = <<>> THEN [exit |-> NoExit, text |-> text]
    ELSE LET orig == Head(ids)
             key  == MakeKey(Head(pairs)[1], Head(pairs)[2])
         IN  IF key \notin DOMAIN m
             THEN SubstituteSkippingMisses(name, text, Tail(ids), Tail(pairs), m)
             ELSE IF ~Contains(text, Pat(orig))
                  THEN [exit |-> Fatal("expected but not found", name, orig), text |-> text]
                  ELSE SubstituteSkippingMisses(name, Replace(text, Pat(orig), Pat(m[key])),
                                                Tail(ids), Tail(pairs), m)

\* Substitute without the test that old_pat is in the text
RECURSIVE SubstituteUnchecked(_, _, _, _, _)
SubstituteUnchecked(name, text, ids, pairs, m) ==
    IF ids = <<>> \/ pairs = <<>> THEN [exit |-> NoExit, text |-> text]
    ELSE LET orig == Head(ids)
             key  == MakeKey(Head(pairs)[1], Head(pairs)[2])
         IN  IF key \notin DOMAIN m
             THEN [exit |-> Fatal("mapping not found", name, key), text |-> text]
             ELSE SubstituteUnchecked(name, Replace(text, Pat(orig), Pat(m[key])),
                                      Tail(ids), Tail(pairs), m)

\* for orig, (m1, m2) in zip(decomp_imports, wat_imports): [exit, text]
RECURSIVE Substitute(_, _, _, _, _)
Substitute(name, text, ids, pairs, m) ==
    IF ids = <<>> \/ pairs = <<>> THEN [exit |-> NoExit, text |-> text]
    ELSE LET orig == Head(ids)
             key  == MakeKey(Head(pairs)[1], Head(pairs)[2])
         IN  IF key \notin DOMAIN m
             THEN [exit |-> Fatal("mapping not found", name, key), text |-> text]
             ELSE IF ~Contains(text, Pat(orig))
                  THEN [exit |-> Fatal("expected but not found", name, orig), text |-> text]
                  ELSE Substitute(name, Replace(text, Pat(orig), Pat(m[key])),
                                  Tail(ids), Tail(pairs), m)

\* the count test left out: zip stops at the shorter list
CountsNeverDiffer(ids, pairs) == FALSE

\* if len(decomp_imports) != len(wat_imports): raise SystemExit(...)
CountsDiffer(ids, pairs) == Len(ids) # Len(pairs)

\* the body of the for loop of process_pairs from the two read_text calls
\* on: the exit message, if any, and the text to write back
Reconcile(name, decomp_text, wat_lines, m) ==
    LET decomp_imports == extract_decomp_imports(decomp_text)
        wat_imports    == extract_wat_imports(wat_lines)
    IN  IF CountsDiffer(decomp_imports, wat_imports)
        THEN [exit |-> Mismatch(name, Len(decomp_imports), Len(wat_imports)),
              text |-> decomp_text]
        ELSE Substitute(name, decomp_text, decomp_imports, wat_imports, m)

----------------------------------------------------------------------------
(* The program *)

\* WriteFile ending what it writes with a line break
WriteFileWithNewline(d, f, text) ==
    [g \in DOMAIN d \cup {f} |-> IF g = f THEN Append(text, "\n") ELSE d[g]]

\* open(out, "wb"), decomp_file.write_text(...): create or overwrite
WriteFile(d, f, text) == [g \in DOMAIN d \cup {f} |-> IF g = f THEN text ELSE d[g]]

\* Path(dir).glob("*.wasm")
Glob(d) == DOMAIN d

\* an exception reaches the top of the program only while it runs: after
\* SystemExit or an uncaught error no statement is executed
Running(at) == pc = at

\* env = fetch_json(env_url): the document arrives, or urlopen raises
FetchJson ==
    /\ Running("fetch")
    /\ \/ /\ pc' = "build"
          /\ exit' = exit
       \/ /\ pc' = "failed"
          /\ exit' = Fatal("URLError", "", <<>>)
    /\ UNCHANGED <<env, mapping, contracts, tool, wat, disk, todo, out, snap, calls, prev>>

\* mapping = build_map(env), then decompile_all() starts its glob
BuildMap ==
    /\ Running("build")
    /\ LET r == build_map(env)
       IN  IF r.ok
           THEN /\ mapping' = r.m
                /\ pc' = "decompile"
                /\ todo' = contracts
                /\ exit' = exit
           ELSE /\ pc' = "failed"
                /\ exit' = Fatal("function entry missing export or name", "", <<>>)
                /\ UNCHANGED <<mapping, todo>>
    /\ UNCHANGED <<env, contracts, tool, wat, disk, out, snap, calls, prev>>

\* Decompile without check=True: the exit status of the tool is not looked at
DecompileUnchecked(f) ==
    /\ Running("decompile")
    /\ f \in todo
    /\ out' = Append(out, <<"decompiling", f>>)
    /\ disk' = WriteFile(disk, f, tool[f].text)
    /\ todo' = todo \ {f}
    /\ UNCHANGED <<pc, exit, env, mapping, contracts, tool, wat, snap, calls, prev>>

\* one round of the loop of decompile_all: the output file is opened
\* (created or emptied) and takes what the tool prints; a non-zero exit
\* raises CalledProcessError
Decompile(f) ==
    /\ Running("decompile")
    /\ f \in todo
    /\ out' = Append(out, <<"decompiling", f>>)
    /\ disk' = WriteFile(disk, f, tool[f].text)
    /\ IF tool[f].ok
       THEN /\ todo' = todo \ {f}
            /\ UNCHANGED <<pc, exit>>
       ELSE /\ pc' = "failed"
            /\ exit' = Fatal("CalledProcessError", f, <<>>)
            /\ todo' = todo
    /\ UNCHANGED <<env, mapping, contracts, tool, wat, snap, calls, prev>>

\* decompile_all returns and process_pairs(mapping) starts its glob
DecompileAllReturn ==
    /\ Running("decompile")
    /\ todo = {}
    /\ pc' = "process"
    /\ todo' = Glob(disk)
    /\ snap' = disk
    /\ calls' = calls + 1
    /\ UNCHANGED <<env, mapping, contracts, tool, wat, disk, out, exit, prev>>

\* one round of the loop of process_pairs
Process(f) ==
    /\ Running("process")
    /\ f \in todo
    /\ IF f \notin DOMAIN wat
       THEN /\ pc' = "failed"
            /\ exit' = Fatal("missing wat", f, <<>>)
            /\ UNCHANGED <<disk, todo, out>>
       ELSE LET r == Reconcile(f, disk[f], wat[f], mapping)
            IN  IF r.exit = NoExit
                THEN /\ disk' = WriteFile(disk, f, r.text)
                     /\ out' = out \o <<<<"processing", f>>, <<"updated", f>>>>
                     /\ todo' = todo \ {f}
                     /\ UNCHANGED <<pc, exit>>
                ELSE /\ pc' = "failed"
                     /\ exit' = r.exit
                     /\ out' = Append(out, <<"processing", f>>)
                     /\ UNCHANGED <<disk, todo>>
    /\ UNCHANGED <<env, mapping, contracts, tool, wat, snap, calls, prev>>

\* process_pairs returns and main prints "done"
ProcessPairsReturn ==
    /\ Running("process")
    /\ todo = {}
    /\ pc' = "done"
    /\ out' = Append(out, <<"done", "">>)
    /\ UNCHANGED <<env, mapping, contracts, tool, wat, disk, todo, exit, snap, calls, prev>>

Updated(o) == {f \in {o[i][2] : i \in 1..Len(o)} : \E i \in 1..Len(o) : o[i] = <<"updated", f>>}

MaxCalls == 2

\* process_pairs(mapping) is called once more over the same directories
ProcessAgain ==
    /\ Running("done")
    /\ calls < MaxCalls
    /\ pc' = "process"
    /\ todo' = Glob(disk)
    /\ snap' = disk
    /\ prev' = [f \in Updated(out) |-> snap[f]]
    /\ out' = <<>>
    /\ calls' = calls + 1
    /\ UNCHANGED <<env, mapping, contracts, tool, wat, disk, exit>>

Files == {"x", "y"}

\* main()
Next ==
    \/ FetchJson
    \/ BuildMap
    \/ \E f \in Files : Decompile(f)
    \/ DecompileAllReturn
    \/ \E f \in Files : Process(f)
    \/ ProcessPairsReturn

\* process_pairs alone, called again and again on what it left
NextRecon ==
    \/ \E f \in Files : Process(f)
    \/ ProcessPairsReturn
    \/ ProcessAgain

----------------------------------------------------------------------------
(* Inputs *)

RECURSIVE Concat(_)
Concat(ss) == IF ss = <<>> THEN <<>> ELSE Head(ss) \o Concat(Tail(ss))

SeqsUpTo(S, n) == UNION {[1..k -> S] : k \in 0..n}

PartialFns(D, S) == UNION {[E -> S] : E \in SUBSET D}

\* a naming descriptor in document order: module items, each followed by
\* the items of its functions
MaxItems == 4

ModAliases == {None, Some(<<>>), Some(<<"v">>), Some(<<"v", "1">>)}

FnItem(e, n) == [tag |-> "fn", export |-> e, name |-> n]

FnItems ==
    { FnItem(Some(<<"1">>), Some(<<"a">>)), FnItem(Some(<<"1">>), Some(<<"b">>)),
      FnItem(Some(<<"1", "1">>), Some(<<"a">>)),
      FnItem(None, Some(<<"a">>)), FnItem(Some(<<"1">>), None) }

Items == {[tag |-> "mod", export |-> e, name |-> None] : e \in ModAliases} \cup FnItems

RECURSIVE Nest(_)
Nest(s) ==
    IF s = <<>> THEN <<>>
    ELSE LET it   == s[Len(s)]
             rest == Nest(SubSeq(s, 1, Len(s) - 1))
         IN  IF it.tag = "mod"
             THEN Append(rest, [export |-> it.export, functions |-> <<>>])
             ELSE [rest EXCEPT ![Len(rest)].functions =
                       Append(@, [export |-> it.export, name |-> it.name])]

Descriptors ==
    {[modules |-> Nest(s)] : s \in {t \in SeqsUpTo(Items, MaxItems) : t = <<>> \/ t[1].tag = "mod"}}

\* decompiled texts: import declarations and calls, one after the other
MaxSegs == 2

Idents == {<<"a">>, <<"b">>}

Decl(ws, ident, gap) == Keyword \o ws \o ident \o gap \o <<"(">>

Segments ==
    {Decl(ws, ident, <<>>) : ws \in {<<" ">>, <<"\t">>}, ident \in Idents}
    \cup {Decl(<<" ">>, <<"a">>, <<" ">>)}
    \cup {Pat(ident) : ident \in Idents \cup {<<"b", "a">>}}

Texts == {Concat(ss) : ss \in SeqsUpTo(Segments, MaxSegs)}

\* reference disassemblies
MaxPairs == 2

ImportLine(m, f) == [import |-> TRUE, m |-> m, f |-> f]

OtherLine == [import |-> FALSE, m |-> <<>>, f |-> <<>>]

RefFiles == SeqsUpTo({ImportLine(<<"v">>, <<"1">>), ImportLine(<<"v">>, <<"2">>)}, MaxPairs)

\* naming tables
Names == {<<"a">>, <<"b">>, <<"n">>}

Tables == PartialFns({<<"v", "1">>, <<"v", "2">>}, Names)

\* the whole program: few descriptors, texts and disassemblies, two files
Mod(e, fns) == [export |-> e, functions |-> fns]

Fn(e, n) == [export |-> e, name |-> n]

PipeEnvs ==
    { [modules |-> <<>>],
      [modules |-> <<Mod(Some(<<"v">>), <<Fn(Some(<<"1">>), Some(<<"n">>))>>)>>],
      [modules |-> <<Mod(Some(<<"v">>), <<Fn(Some(<<"1">>), Some(<<"n">>)), Fn(None, Some(<<"a">>))>>)>>],
      [modules |-> <<Mod(None, <<Fn(Some(<<"1">>), None)>>),
                     Mod(Some(<<"v">>), <<Fn(Some(<<"1">>), Some(<<"n">>))>>)>>] }

ToolRuns ==
    {[ok |-> TRUE, text |-> t] : t \in {<<>>, Decl(<<" ">>, <<"a">>, <<>>), Decl(<<"\t">>, <<"a">>, <<>>)}}
    \cup {[ok |-> FALSE, text |-> <<>>]}

PipeWats ==
    { <<OtherLine>>,
      <<OtherLine, ImportLine(<<"v">>, <<"1">>)>>,
      <<ImportLine(<<"v">>, <<"1">>), ImportLine(<<"v">>, <<>>)>> }

StaleTexts == {Decl(<<" ">>, <<"a">>, <<>>)}

----------------------------------------------------------------------------
(* Specifications *)

\* main() over two contracts, with what earlier runs left in decomp/
Init ==
    /\ pc = "fetch"
    /\ env \in PipeEnvs
    /\ mapping = EmptyMap
    /\ contracts \in SUBSET Files
    /\ tool \in [contracts -> ToolRuns]
    /\ wat \in PartialFns(Files, PipeWats)
    /\ disk \in PartialFns(Files, StaleTexts)
    /\ todo = {}
    /\ out = <<>>
    /\ exit = NoExit
    /\ snap = disk
    /\ calls = 0
    /\ prev = [f \in {} |-> <<>>]

Spec == Init /\ [][Next]_vars

\* main() over one contract, for every descriptor
InitMap ==
    /\ pc = "fetch"
    /\ env \in Descriptors
    /\ mapping = EmptyMap
    /\ contracts = {"x"}
    /\ tool = [f \in {"x"} |-> [ok |-> TRUE, text |-> Decl(<<" ">>, <<"a">>, <<>>)]]
    /\ wat = [f \in {"x"} |-> <<ImportLine(<<"v">>, <<"1">>)>>]
    /\ disk = [f \in {} |-> <<>>]
    /\ todo = {}
    /\ out = <<>>
    /\ exit = NoExit
    /\ snap = disk
    /\ calls = 0
    /\ prev = [f \in {} |-> <<>>]

SpecMap == InitMap /\ [][Next]_vars

\* process_pairs(mapping) over one file, for every text, disassembly and table
InitRecon ==
    /\ pc = "process"
    /\ env = [modules |-> <<>>]
    /\ mapping \in Tables
    /\ contracts = {}
    /\ tool = [f \in {} |-> [ok |-> TRUE, text |-> <<>>]]
    /\ wat \in [{"x"} -> RefFiles]
    /\ disk \in [{"x"} -> Texts]
    /\ todo = Glob(disk)
    /\ out = <<>>
    /\ exit = NoExit
    /\ snap = disk
    /\ calls = 1
    /\ prev = [f \in {} |-> <<>>]

SpecRecon == InitRecon /\ [][NextRecon]_vars

----------------------------------------------------------------------------
(* What the claims speak of *)

Printed(what, f) == \E i \in 1..Len(out) : out[i] = <<what, f>>

\* the file f was read by the running call of process_pairs
Processed(f) == f \in DOMAIN snap /\ f \in DOMAIN wat /\ Printed("processing", f)

\* process_pairs exited on f and left it on disk as it found it
Untouched(f) == pc = "failed" /\ exit.file = f /\ disk[f] = snap[f] /\ ~Printed("updated", f)

\* " id("
SpaceIdParen(ident) == <<" ">> \o ident \o <<"(">>

Keys(pairs) == [i \in 1..Len(pairs) |-> pairs[i][1] \o pairs[i][2]]

SomeKeyMissing(keys) == \E i \in 1..Len(keys) : keys[i] \notin DOMAIN mapping

\* the texts in memory: the text as read, then the text each position
\* leaves whose key is in the table and whose " id(" is in the text before
\* it; position i is come to when the list has i texts at least
RECURSIVE Walk(_, _, _, _)
Walk(t, ids, keys, i) ==
    IF i > Len(ids) \/ keys[i] \notin DOMAIN mapping \/ ~Contains(t, SpaceIdParen(ids[i]))
    THEN <<t>>
    ELSE <<t>> \o Walk(Replace(t, SpaceIdParen(ids[i]), SpaceIdParen(mapping[keys[i]])),
                       ids, keys, i + 1)

----------------------------------------------------------------------------
(* C3 *)

\* C3: a file whose decompiled text and reference disassembly give different
\* numbers of imports makes process_pairs exit with the message that names
\* the file and both counts; nothing is substituted and the file on disk is
\* as it was.
C3_CountMismatchAborts ==
    \A f \in Files :
        Processed(f) =>
            LET ids   == extract_decomp_imports(snap[f])
                pairs == extract_wat_imports(wat[f])
            IN  Len(ids) # Len(pairs) =>
                    /\ Untouched(f)
                    /\ exit = Mismatch(f, Len(ids), Len(pairs))

\* a file with two imports against one reference pair, both of them nameable
C3_Witness ==
    /\ Processed("x")
    /\ LET ids   == extract_decomp_imports(snap["x"])
           pairs == extract_wat_imports(wat["x"])
       IN  /\ Len(ids) = 2
           /\ Len(pairs) = 1
           /\ Keys(pairs)[1] \in DOMAIN mapping
           /\ Contains(snap["x"], SpaceIdParen(ids[1]))
    /\ exit.kind = "import count mismatch"

----------------------------------------------------------------------------
(* C4 *)

\* C4 as stated: whenever the key of some position of a file whose counts
\* agree is absent from the naming table, process_pairs exits with the
\* message that names an absent key and the file, and the file on disk is
\* as it was.
C4_MissNamesKey ==
    \A f \in Files :
        Processed(f) =>
            LET ids  == extract_decomp_imports(snap[f])
                keys == Keys(extract_wat_imports(wat[f]))
            IN  (Len(ids) = Len(keys) /\ SomeKeyMissing(keys)) =>
                    /\ Untouched(f)
                    /\ exit.kind = "mapping not found"
                    /\ \E i \in 1..Len(keys) :
                           exit.arg = keys[i] /\ keys[i] \notin DOMAIN mapping

\* C4 amended: whenever the key of some position of a file whose counts
\* agree is absent from the naming table, process_pairs exits before it
\* writes the file, which is on disk as it was; the message names the key
\* and the file when the loop comes to that position, and otherwise the
\* identifier of an earlier position whose key is in the table and whose
\* " id(" is not in the text.
C4_MissAbortsBeforeWrite ==
    \A f \in Files :
        Processed(f) =>
            LET ids  == extract_decomp_imports(snap[f])
                keys == Keys(extract_wat_imports(wat[f]))
                w    == Walk(snap[f], ids, keys, 1)
            IN  (Len(ids) = Len(keys) /\ SomeKeyMissing(keys)) =>
                    /\ Untouched(f)
                    /\ \A i \in 1..Len(keys) :
                           (i <= Len(w) /\ keys[i] \notin DOMAIN mapping) =>
                               exit = Fatal("mapping not found", f, keys[i])
                    /\ exit.kind # "mapping not found" =>
                           /\ exit.kind = "expected but not found"
                           /\ \E i \in 1..Len(ids) :
                                  /\ i = Len(w)
                                  /\ keys[i] \in DOMAIN mapping
                                  /\ exit.arg = ids[i]
                                  /\ ~Contains(w[i], SpaceIdParen(ids[i]))
                                  /\ \E j \in (i + 1)..Len(keys) : keys[j] \notin DOMAIN mapping

\* the second key is the absent one and the first position has changed the
\* text in memory
C4_Witness ==
    /\ Processed("x")
    /\ LET ids  == extract_decomp_imports(snap["x"])
           keys == Keys(extract_wat_imports(wat["x"]))
           w    == Walk(snap["x"], ids, keys, 1)
       IN  /\ Len(ids) = 2
           /\ Len(keys) = 2
           /\ Len(w) = 2
           /\ w[2] # snap["x"]
           /\ exit = Fatal("mapping not found", "x", keys[2])
    /\ disk["x"] = snap["x"]

----------------------------------------------------------------------------
(* C9 *)

Words == Idents \cup Names \cup {<<"b", "a">>}

\* how many identifiers of the text, from position i on, are w
RECURSIVE CountRuns(_, _, _)
CountRuns(t, i, w) ==
    IF i > Len(t) THEN 0
    ELSE IF t[i] \in WordChars
         THEN LET e == SkipWhile(t, i, WordChars)
              IN  (IF SubSeq(t, i, e - 1) = w THEN 1 ELSE 0) + CountRuns(t, e, w)
         ELSE CountRuns(t, i + 1, w)

\* C9: at each position the loop of process_pairs comes to with a key of the
\* table, " id(" is in the text as the earlier positions left it, or
\* process_pairs exits naming the identifier and the file, which is on disk
\* as it was; the substitution of a position leaves the count of every
\* other identifier, those it is part of and those that are part of it
\* included, as it was; a file is rewritten only when every position
\* passed, with the text the last position left.
C9_SubstringRequired ==
    \A f \in Files :
        Processed(f) =>
            LET ids  == extract_decomp_imports(snap[f])
                keys == Keys(extract_wat_imports(wat[f]))
                w    == Walk(snap[f], ids, keys, 1)
            IN  Len(ids) = Len(keys) =>
                    /\ \A i \in 1..Len(ids) :
                           (i <= Len(w) /\ keys[i] \in DOMAIN mapping) =>
                               IF Contains(w[i], SpaceIdParen(ids[i]))
                               THEN \A wd \in Words \ {ids[i], mapping[keys[i]]} :
                                        CountRuns(w[i + 1], 1, wd) = CountRuns(w[i], 1, wd)
                               ELSE /\ Untouched(f)
                                    /\ exit = Fatal("expected but not found", f, ids[i])
                    /\ Printed("updated", f) =>
                           /\ Len(w) = Len(ids) + 1
                           /\ disk[f] = w[Len(w)]

\* " id(" of the second position is in the file but no more in the text the
\* first position left, where an identifier that ends with it still is
C9_Witness ==
    /\ Processed("x")
    /\ LET ids  == extract_decomp_imports(snap["x"])
           keys == Keys(extract_wat_imports(wat["x"]))
           w    == Walk(snap["x"], ids, keys, 1)
       IN  /\ Len(ids) = 2
           /\ Len(keys) = 2
           /\ Len(w) = 2
           /\ keys[2] \in DOMAIN mapping
           /\ Contains(snap["x"], SpaceIdParen(ids[2]))
           /\ ~Contains(w[2], SpaceIdParen(ids[2]))
           /\ exit = Fatal("expected but not found", "x", ids[2])
    /\ disk["x"] = snap["x"]

----------------------------------------------------------------------------
(* C1 *)

Min(S) == CHOOSE k \in S : \A j \in S : k <= j

\* the text with every " id_k(" replaced by " name_k(", all at once
RECURSIVE Renamed(_, _, _, _)
Renamed(t, i, ids, names) ==
    IF i > Len(t) THEN <<>>
    ELSE LET hits == {k \in 1..Len(ids) : OccursAt(t, i, SpaceIdParen(ids[k]))}
         IN  IF hits # {}
             THEN SpaceIdParen(names[Min(hits)])
                  \o Renamed(t, i + Len(ids[Min(hits)]) + 2, ids, names)
             ELSE <<t[i]>> \o Renamed(t, i + 1, ids, names)

Distinct(ids) == \A i, j \in 1..Len(ids) : i # j => ids[i] # ids[j]

\* C1, for the files whose import identifiers differ from one another and
\* are each in the text as " id(": when the counts agree and every key is
\* in the table, process_pairs rewrites the file, and what it writes is the
\* text with every " id_i(" replaced by the name of the i-th key and nothing
\* else changed.
C1_RoundTrip ==
    \A f \in Files :
        Processed(f) =>
            LET ids  == extract_decomp_imports(snap[f])
                keys == Keys(extract_wat_imports(wat[f]))
            IN  ( /\ Len(ids) = Len(keys)
                  /\ ~SomeKeyMissing(keys)
                  /\ Distinct(ids)
                  /\ \A i \in 1..Len(ids) : Contains(snap[f], SpaceIdParen(ids[i])) )
                => /\ Printed("updated", f)
                   /\ disk[f] = Renamed(snap[f], 1, ids, [i \in 1..Len(keys) |-> mapping[keys[i]]])

----------------------------------------------------------------------------
(* C2 *)

\* the previous call rewrote f and changed its text
AlreadyRenamed(f) == calls >= 2 /\ f \in DOMAIN prev /\ f \in DOMAIN snap /\ prev[f] # snap[f]

\* C2 as stated: a call of process_pairs on a file the previous call renamed,
\* with the same disassembly and table, exits with a fatal error.
C2_SecondRunFails ==
    \A f \in Files : (AlreadyRenamed(f) /\ Processed(f)) => (pc = "failed" /\ exit.file = f)

\* the declarations of the text carry the names of the table, position by
\* position, each in the text as " name("
CarriesNames(f) ==
    LET ids  == extract_decomp_imports(snap[f])
        keys == Keys(extract_wat_imports(wat[f]))
    IN  /\ Len(ids) = Len(keys)
        /\ \A i \in 1..Len(ids) :
               /\ keys[i] \in DOMAIN mapping
               /\ ids[i] = mapping[keys[i]]
               /\ Contains(snap[f], SpaceIdParen(ids[i]))

\* C2 amended: a call of process_pairs on a file the previous call rewrote
\* takes its identifiers from the text as it is now; when the declarations
\* carry the names of the table, each in the text as " name(", the call
\* succeeds and writes the file back as it was.
C2_SecondRunKeepsRenamed ==
    \A f \in Files :
        (calls >= 2 /\ f \in DOMAIN prev /\ Processed(f) /\ CarriesNames(f)) =>
            /\ pc # "failed"
            /\ Printed("updated", f)
            /\ disk[f] = snap[f]

\* the first call gave an import the name of the table, the second call
\* found it so and succeeded
C2_Witness ==
    /\ calls = 2
    /\ AlreadyRenamed("x")
    /\ Len(extract_decomp_imports(prev["x"])) = 1
    /\ extract_decomp_imports(prev["x"])[1] # extract_decomp_imports(snap["x"])[1]
    /\ Processed("x")
    /\ CarriesNames("x")
    /\ Printed("updated", "x")
    /\ disk["x"] = snap["x"]

----------------------------------------------------------------------------
(* C6, C10, C5 *)

BuildFailed == pc = "failed" /\ exit.kind = "function entry missing export or name"

\* build_map has been called
BuildRan == pc \notin {"fetch", "build"} /\ exit.kind # "URLError"

\* build_map has returned a table
BuiltOk == BuildRan /\ ~BuildFailed

HasAlias(mod) == mod.export # None

WithoutAliasless(e) == [modules |-> SelectSeq(e.modules, HasAlias)]

\* C6: when build_map succeeds, the table is the one built from the
\* descriptor without its modules that lack an export alias, and every key
\* of the table comes from a function of a module that has one.
C6_AliaslessModulesAddNothing ==
    BuiltOk =>
        /\ build_map(WithoutAliasless(env)).ok
        /\ mapping = build_map(WithoutAliasless(env)).m
        /\ \A k \in DOMAIN mapping :
               \E i \in 1..Len(env.modules) :
                   /\ env.modules[i].export # None
                   /\ \E j \in 1..Len(env.modules[i].functions) :
                          /\ env.modules[i].functions[j].export # None
                          /\ k = env.modules[i].export[1] \o env.modules[i].functions[j].export[1]

\* a module without alias holds a complete function entry, and the table
\* has entries of another module
C6_Witness ==
    /\ BuiltOk
    /\ mapping # EmptyMap
    /\ \E i \in 1..Len(env.modules) :
           /\ env.modules[i].export = None
           /\ \E j \in 1..Len(env.modules[i].functions) :
                  /\ env.modules[i].functions[j].export # None
                  /\ env.modules[i].functions[j].name # None

Considered(mod) == mod.export # None /\ mod.export[1] # <<>>

\* the entries of the considered modules, in the order of the descriptor
RECURSIVE FlatEntries(_)
FlatEntries(mods) ==
    IF mods = <<>> THEN <<>>
    ELSE (IF Considered(Head(mods))
          THEN [j \in 1..Len(Head(mods).functions) |->
                   [mod  |-> Head(mods).export[1],
                    key  |-> Head(mods).export[1] \o Head(mods).functions[j].export[1],
                    name |-> Head(mods).functions[j].name[1]]]
          ELSE <<>>)
         \o FlatEntries(Tail(mods))

Max(S) == CHOOSE k \in S : \A j \in S : k >= j

\* C10: the keys of the table are the module aliases followed at once by the
\* function aliases, and each key has the name of the last entry of the
\* descriptor that gives that key.
C10_LastEntryWins ==
    BuiltOk =>
        LET fl == FlatEntries(env.modules)
        IN  /\ DOMAIN mapping = {fl[i].key : i \in 1..Len(fl)}
            /\ \A i \in 1..Len(fl) :
                   mapping[fl[i].key] = fl[Max({j \in 1..Len(fl) : fl[j].key = fl[i].key})].name

\* two entries of modules with different aliases give one key and two names
C10_Witness ==
    /\ BuiltOk
    /\ LET fl == FlatEntries(env.modules)
       IN  \E i, j \in 1..Len(fl) :
               /\ i < j
               /\ fl[i].key = fl[j].key
               /\ fl[i].mod # fl[j].mod
               /\ fl[i].name # fl[j].name
               /\ mapping[fl[i].key] = fl[j].name

Incomplete(fn) == fn.export = None \/ fn.name = None

NothingWritten == out = <<>> /\ disk = snap

\* C5 as stated: a function entry without its alias or its name, in any
\* module, makes build_map fail, and no file is created or rewritten.
C5_AnyIncompleteEntryFails ==
    ( /\ BuildRan
      /\ \E i \in 1..Len(env.modules) :
             \E j \in 1..Len(env.modules[i].functions) :
                 Incomplete(env.modules[i].functions[j]) )
    => (BuildFailed /\ NothingWritten)

\* C5 amended: a function entry without its alias or its name, in a module
\* that has a non-empty export alias, makes build_map fail, and no file is
\* created or rewritten.
C5_IncompleteEntryOfConsideredModuleFails ==
    ( /\ BuildRan
      /\ \E i \in 1..Len(env.modules) :
             /\ Considered(env.modules[i])
             /\ \E j \in 1..Len(env.modules[i].functions) :
                    Incomplete(env.modules[i].functions[j]) )
    => (BuildFailed /\ NothingWritten)

\* the incomplete entry comes after a complete one
C5_Witness ==
    /\ BuildFailed
    /\ NothingWritten
    /\ \E i \in 1..Len(env.modules) :
           /\ Considered(env.modules[i])
           /\ Len(env.modules[i].functions) >= 2
           /\ ~Incomplete(env.modules[i].functions[1])
           /\ Incomplete(env.modules[i].functions[2])

----------------------------------------------------------------------------
(* C7, C8 *)

\* what the state says of each fatal condition met so far: the program has
\* exited with its message, and the line printed for the offending file is
\* the last one; what was written before is on disk
C7_Stopped ==
    /\ (pc = "failed") = (exit # NoExit)
    /\ (BuildRan /\ ~build_map(env).ok) => (BuildFailed /\ out = <<>>)
    /\ \A f \in Files :
           (Printed("decompiling", f) /\ ~tool[f].ok) =>
               /\ exit = Fatal("CalledProcessError", f, <<>>)
               /\ out[Len(out)] = <<"decompiling", f>>
    /\ \A f \in Files :
           (Processed(f) /\ Reconcile(f, snap[f], wat[f], mapping).exit # NoExit) =>
               /\ exit = Reconcile(f, snap[f], wat[f], mapping).exit
               /\ out[Len(out)] = <<"processing", f>>
    /\ \A g \in Files :
           (Printed("decompiling", g) /\ calls = 0) => disk[g] = tool[g].text
    /\ \A g \in Files :
           Printed("updated", g) => disk[g] = Reconcile(g, snap[g], wat[g], mapping).text
    /\ exit.kind = "missing wat" =>
           /\ exit.file \in DOMAIN disk \ DOMAIN wat
           /\ ~Printed("processing", exit.file)
    /\ \A i, j \in 1..Len(out) : i # j => out[i] # out[j]

\* C7: a fatal condition of build_map, of the decompiler or of process_pairs
\* ends the program with its message; the line of the offending file is the
\* last one printed, no line is printed twice, and from then on nothing
\* changes: not the files on disk, not what was printed.
C7_FailFast ==
    /\ []C7_Stopped
    /\ [][pc = "failed" => UNCHANGED <<pc, exit, disk, out, todo>>]_vars

\* process_pairs fails on the second file after it has rewritten the first,
\* which keeps what was written
C7_Witness ==
    /\ pc = "failed"
    /\ \E f, g \in Files :
           /\ f # g
           /\ exit.file = f
           /\ exit.kind \in {"import count mismatch", "mapping not found", "expected but not found"}
           /\ Printed("decompiling", f)
           /\ Printed("updated", g)
           /\ disk[g] # snap[g]

\* C8: when the program ends with "done", every file process_pairs rewrote
\* was written by decompile_all before, in the same run, and rewritten
\* once; every "decompiling" line comes before every "updated" line.
C8_RewritesOnlyWhatItDecompiled ==
    pc = "done" =>
        /\ \A f \in Files :
               Printed("updated", f) =>
                   /\ Printed("decompiling", f)
                   /\ Cardinality({i \in 1..Len(out) : out[i] = <<"updated", f>>}) = 1
        /\ \A i, j \in 1..Len(out) :
               (out[i][1] = "decompiling" /\ out[j][1] = "updated") => i < j

====
